---------------------------- MODULE Spec2Model ----------------------------
(***************************************************************************)
(* A model of the yamux session multiplexer (src/session.go).              *)
(*                                                                         *)
(* Every goroutine is a task with a program counter.  The tasks are the    *)
(* receive loop "recv", the send loop "send" and the user tasks, each of   *)
(* which calls Open, AcceptStream, Close, GoAway, Ping or a stream write.  *)
(* A step is one access to shared state or one blocking point (a lock, a   *)
(* channel operation, a transport read or write); memory is sequentially   *)
(* consistent at that granularity, so an unsynchronised read sees either   *)
(* side of a concurrent write through the interleaving of the steps.       *)
(***************************************************************************)
EXTENDS Integers, Sequences, FiniteSets, TLC

\* ------------------------------------------------------------------ bounds
\* Depth of sendCh (64 in newSession), scaled down.
SendQueueCap == 2
\* config.AcceptBacklog, scaled down.
AcceptBacklog == 1
\* Calls the user tasks make and frames the peer delivers in one behaviour
\* of Spec, SpecSend, SpecOpen, SpecAccept and SpecPing.
MaxOps == 1
MaxIn == 2
SendOps == 2
SendIn == 1
OpenOps == 4
OpenIn == 2
AcceptOps == 2
AcceptIn == 2
PingOps == 2
PingIn == 1
\* Incoming frames name stream ids 1..MaxPeerId and ping ids 0..MaxPeerId-1.
MaxPeerId == 2
\* Width in bits of the uint32 counters nextStreamID and pingID, scaled down
\* (32 in the code); the arithmetic on them is taken modulo 2^IdBits.
IdBits == 3

\* ------------------------------------------------------- program constants
\* math.MaxUint32 at the width of the model.
Uint32Mod == 2 ^ IdBits
MaxUint32 == Uint32Mod - 1

Users == {"u1", "u2"}
Tasks == Users \cup {"recv", "send"}
NoTask == "none"

\* Errors (the Err* values of the package and the transport's errors).
ErrNil == "nil"
ErrSessionShutdown == "SessionShutdown"
ErrRemoteGoAway == "RemoteGoAway"
ErrStreamsExhausted == "StreamsExhausted"
ErrInvalidVersion == "InvalidVersion"
ErrInvalidMsgType == "InvalidMsgType"
ErrMissingStream == "MissingStream"
ErrDuplicateStream == "DuplicateStream"
ErrGoAwayReceived == "GoAwayReceived"
ErrStream == "StreamError"
ErrRead == "ReadError"
ErrWrite == "WriteError"

\* Header fields.
typeData == "Data"
typeWindowUpdate == "WindowUpdate"
typePing == "Ping"
typeGoAway == "GoAway"
typeUnknown == "Unknown"
flagSYN == "SYN"
flagACK == "ACK"
flagRST == "RST"
goAwayNormal == 0
goAwayProtoErr == 1
protoVersion == 0

\* hdr.encode(msgType, flags, streamID, length)
encode(msgType, flags, streamID, length) ==
    [ver |-> protoVersion, type |-> msgType, flags |-> flags,
     sid |-> streamID, len |-> length]

NoFrame == [ver |-> protoVersion, type |-> "none", flags |-> {}, sid |-> 0, len |-> 0]

\* The length field of the stream frames the peer sends.
BodyLen == 1

\* The frames the peer may deliver: stream frames with and without SYN,
\* pings and their answers, go-aways, and the two framing violations.
PeerIds == 1..MaxPeerId
InFrames ==
    {encode(t, f, i, BodyLen) : t \in {typeData, typeWindowUpdate},
                           f \in {{flagSYN}, {}}, i \in PeerIds}
    \cup {encode(typePing, f, 0, i - 1) : f \in {{flagSYN}, {flagACK}}, i \in PeerIds}
    \cup {encode(typeGoAway, {}, 0, c) : c \in {goAwayNormal, goAwayProtoErr}}
    \cup {[encode(typeData, {}, 1, 0) EXCEPT !.ver = 1]}
    \cup {encode(typeUnknown, {}, 0, 0)}

VARIABLES
    client,        \* Session.client
    nextStreamID,  \* Session.nextStreamID (uint32)
    streams,       \* Session.streams: id -> state of the stream
    streamLock,    \* Session.streamLock: the task holding it, or NoTask
    acceptCh,      \* Session.acceptCh: the ids of the queued streams
    sendCh,        \* Session.sendCh: the queued sendReady requests
    pings,         \* Session.pings: ping id -> the task whose channel it maps
    pingID,        \* Session.pingID (uint32)
    remoteGoAway,  \* Session.remoteGoAway
    localGoAway,   \* Session.localGoAway
    shutdown,      \* Session.shutdown
    shutdownErr,   \* Session.shutdownErr
    shutdownCh,    \* number of close(s.shutdownCh) executed
    connClosed,    \* number of s.conn.Close() executed
    shutdownLock,  \* Session.shutdownLock: the task holding it, or NoTask
    pc,            \* task -> where it is
    cont,          \* task -> where it goes when its Close call returns
    hdr,           \* the header the receive loop is handling
    ready,         \* the request the send loop has dequeued
    errCh,         \* task -> what its sendReady.Err channel holds
    pingCh,        \* task -> "none" | "open" | "closed": the ch of its Ping call
    myID,          \* task -> the stream or ping id its call works on
    myReq,         \* task -> the number of the request it waits for, or 0
    op,            \* user -> the call it is making or made last
    ret,           \* user -> the error its last call returned
    retStream,     \* user -> the stream id its last call returned, or 0
    began,         \* user -> what held when its call started: a Close call had
                   \* returned (closed), remoteGoAway was set (goaway), the
                   \* shutdown signal had fired (down)
    rejected,      \* why incomingStream rejected the frame in hand, or "none"
    opened,        \* the ids Open has registered, in order
    lastRead,      \* the stream frame the receive loop has just handled and
                   \* the body bytes it read from the transport for it
    wire,          \* the chunks written to the transport, in order
    writer,        \* the task that wrote each chunk of wire
    enqCount,      \* number of requests enqueued on sendCh so far
    closeReturned, \* a call of Close has returned
    closers,       \* the tasks whose Close call performed the shutdown
    forceClosed,   \* number of times Close ran its forceClose loop
    opsLeft,       \* calls the user tasks may still start
    inLeft         \* frames the peer may still deliver

sessVars == <<client, nextStreamID, streams, acceptCh, pings, pingID,
              remoteGoAway, localGoAway>>
shutVars == <<shutdown, shutdownErr, shutdownCh, connClosed, shutdownLock,
              closeReturned, closers, forceClosed>>
sendVars == <<sendCh, ready, errCh, wire, writer, enqCount>>
taskVars == <<pc, cont, hdr, pingCh, myID, myReq, op, ret, retStream, began,
              opsLeft, inLeft>>
histVars == <<rejected, opened, lastRead>>
vars == <<sessVars, streamLock, shutVars, sendVars, taskVars, histVars>>

\* Go maps: the empty map, m[k] = v and delete(m, k).
EmptyMap == [k \in {} |-> 0]
Put(m, k, v) == [x \in DOMAIN m \cup {k} |-> IF x = k THEN v ELSE m[x]]
Del(m, k) == [x \in DOMAIN m \ {k} |-> m[x]]

\* No stream frame handled since the top of the receive loop.
NoRead == [type |-> "none", len |-> 0, n |-> 0]

\* No request: the send loop holds none.
NoReq == [n |-> 0, hdr |-> NoFrame, body |-> FALSE, owner |-> NoTask]

\* isShutdown: the shutdown signal has fired.
isShutdown == shutdownCh > 0

\* newSession: the state after construction, for either side.
InitFor(ops, frames) ==
    /\ client \in BOOLEAN
    /\ nextStreamID \in {1, 2}
    /\ nextStreamID % 2 = (IF client THEN 1 ELSE 0)
    /\ streams = EmptyMap
    /\ streamLock = NoTask
    /\ acceptCh = <<>>
    /\ sendCh = <<>>
    /\ pings = EmptyMap
    /\ pingID = 0
    /\ remoteGoAway = FALSE
    /\ localGoAway = FALSE
    /\ shutdown = FALSE
    /\ shutdownErr = ErrNil
    /\ shutdownCh = 0
    /\ connClosed = 0
    /\ shutdownLock = NoTask
    /\ pc = [t \in Tasks |-> IF t = "recv" THEN "recv_top"
                             ELSE IF t = "send" THEN "send_select" ELSE "idle"]
    /\ cont = [t \in Tasks |-> "idle"]
    /\ hdr = NoFrame
    /\ ready = NoReq
    /\ errCh = [t \in Tasks |-> "empty"]
    /\ pingCh = [t \in Tasks |-> "none"]
    /\ myID = [t \in Tasks |-> 0]
    /\ myReq = [t \in Tasks |-> 0]
    /\ op = [u \in Users |-> "none"]
    /\ ret = [u \in Users |-> "none"]
    /\ retStream = [u \in Users |-> 0]
    /\ began = [u \in Users |-> [closed |-> FALSE, goaway |-> FALSE,
                                 down |-> FALSE]]
    /\ rejected = "none"
    /\ opened = <<>>
    /\ lastRead = NoRead
    /\ wire = <<>>
    /\ writer = <<>>
    /\ enqCount = 0
    /\ closeReturned = FALSE
    /\ closers = {}
    /\ forceClosed = 0
    /\ opsLeft = ops
    /\ inLeft = frames

Init == InitFor(MaxOps, MaxIn)

\* ------------------------------------------------------------ send queue
\* s.sendCh <- sendReady{Hdr, Body, Err}: the request joins the tail of the
\* queue; n numbers the requests in the order they were enqueued.
Enqueue(h, body, owner) ==
    /\ Len(sendCh) < SendQueueCap
    /\ sendCh' = Append(sendCh, [n |-> enqCount + 1, hdr |-> h,
                                 body |-> body, owner |-> owner])
    /\ enqCount' = enqCount + 1

\* sendNoWait(hdr), lines 240-247: a select that enqueues the header or,
\* once the shutdown signal has fired, gives up; the caller blocks while
\* neither case is ready.
sendNoWait(h) ==
    \/ Enqueue(h, FALSE, NoTask)
    \/ isShutdown /\ UNCHANGED <<sendCh, enqCount>>

\* asyncSendErr(ch, err): a non-blocking send on the request's Err channel,
\* which has room for one value.  A request of sendNoWait has no channel, and
\* a value sent to the channel of a call that has returned is never read.
asyncSendErr(req, err) ==
    IF req.owner # NoTask /\ myReq[req.owner] = req.n /\ errCh[req.owner] = "empty"
    THEN [errCh EXCEPT ![req.owner] = err]
    ELSE errCh

\* ------------------------------------------------------------------ Close
\* exitErr(err) by task t: record the error, then call Close; k is where t
\* continues when Close returns.
exitErr(t, err, k) ==
    /\ shutdownErr' = err
    /\ pc' = [pc EXCEPT ![t] = "close_lock"]
    /\ cont' = [cont EXCEPT ![t] = k]

\* Close, lines 149-159: take shutdownLock; a later caller returns nil at
\* once, the first sets shutdown and shutdownErr and closes shutdownCh.
CloseLock(t) ==
    /\ pc[t] = "close_lock"
    /\ shutdownLock = NoTask
    /\ IF shutdown
       THEN /\ pc' = [pc EXCEPT ![t] = cont[t]]
            /\ closeReturned' = TRUE
            /\ ret' = IF t \in Users THEN [ret EXCEPT ![t] = ErrNil] ELSE ret
            /\ UNCHANGED <<shutdown, shutdownErr, shutdownCh, shutdownLock, closers>>
       ELSE /\ shutdown' = TRUE
            /\ shutdownErr' = IF shutdownErr = ErrNil THEN ErrSessionShutdown
                              ELSE shutdownErr
            /\ shutdownCh' = shutdownCh + 1
            /\ shutdownLock' = t
            /\ closers' = closers \cup {t}
            /\ pc' = [pc EXCEPT ![t] = "close_conn"]
            /\ UNCHANGED <<closeReturned, ret>>
    /\ UNCHANGED <<sessVars, streamLock, sendVars, connClosed, forceClosed,
                   cont, hdr, pingCh, myID, myReq, op, retStream, began, opsLeft, inLeft,
                   histVars>>

\* Close, line 160: s.conn.Close().
CloseConn(t) ==
    /\ pc[t] = "close_conn"
    /\ connClosed' = connClosed + 1
    /\ pc' = [pc EXCEPT ![t] = "close_streams"]
    /\ UNCHANGED <<sessVars, streamLock, sendVars, shutdown, shutdownErr,
                   shutdownCh, shutdownLock, closeReturned, closers, forceClosed,
                   cont, hdr, pingCh, myID, myReq, op, ret, retStream, began, opsLeft, inLeft,
                   histVars>>

\* stream.forceClose(): the stream ends Closed.
forceClose(st) == "Closed"

\* Close, lines 162-167: take streamLock (not reentrant), force-close every
\* stream of the table, release both locks and return nil.
CloseStreams(t) ==
    /\ pc[t] = "close_streams"
    /\ streamLock = NoTask
    /\ streams' = [i \in DOMAIN streams |-> forceClose(streams[i])]
    /\ forceClosed' = forceClosed + 1
    /\ shutdownLock' = NoTask
    /\ closeReturned' = TRUE
    /\ pc' = [pc EXCEPT ![t] = cont[t]]
    /\ ret' = IF t \in Users THEN [ret EXCEPT ![t] = ErrNil] ELSE ret
    /\ UNCHANGED <<client, nextStreamID, acceptCh, pings, pingID, remoteGoAway,
                   localGoAway, streamLock, sendVars, shutdown, shutdownErr,
                   shutdownCh, connClosed, closers,
                   cont, hdr, pingCh, myID, myReq, op, retStream, began, opsLeft, inLeft,
                   histVars>>

\* A user task calls a function: op names it, began records whether a Close
\* call had returned, whether remoteGoAway was set and whether the shutdown
\* signal had fired, when it started.
Call(u, name) ==
    /\ pc[u] = "idle"
    /\ opsLeft > 0
    /\ u = "u2" => pc["u1"] # "idle"
    /\ opsLeft' = opsLeft - 1
    /\ op' = [op EXCEPT ![u] = name]
    /\ began' = [began EXCEPT ![u] = [closed |-> closeReturned,
                                        goaway |-> remoteGoAway,
                                        down |-> isShutdown]]

\* The call is in progress at label at.
Pending(u, at) ==
    /\ pc' = [pc EXCEPT ![u] = at]
    /\ ret' = [ret EXCEPT ![u] = "pending"]
    /\ retStream' = [retStream EXCEPT ![u] = 0]

\* The call of user u returns err and stream id sid.
Return(u, err, sid) ==
    /\ pc' = [pc EXCEPT ![u] = "idle"]
    /\ ret' = [ret EXCEPT ![u] = err]
    /\ retStream' = [retStream EXCEPT ![u] = sid]

\* A user task calls Close.
CloseCall(u) ==
    /\ Call(u, "Close")
    /\ Pending(u, "close_lock")
    /\ cont' = [cont EXCEPT ![u] = "idle"]
    /\ UNCHANGED <<sessVars, streamLock, shutVars, sendVars, hdr, pingCh, myID,
                   myReq, inLeft, histVars>>

\* ------------------------------------------------------------------- Open
\* An Open that refuses only the last value of the counter.
Exhausted_AtMax(id) == id >= MaxUint32

\* Open, line 116: the id space is used up.
Exhausted(id) == id >= MaxUint32 - 1

\* An Open that advances the counter by one.
NextID_ByOne(id) == (id + 1) % Uint32Mod

\* Open, line 119: s.nextStreamID += 2 on a uint32.
NextID(id) == (id + 2) % Uint32Mod

\* An Open without the check of the shutdown signal.
OpenCall_NoShutdownCheck(u) ==
    /\ Call(u, "Open")
    /\ Pending(u, "open_goaway")
    /\ UNCHANGED <<sessVars, streamLock, shutVars, sendVars, cont, hdr, pingCh,
                   myID, myReq, inLeft, histVars>>

\* Open, lines 104-106: a shut-down session opens nothing.
OpenCall(u) ==
    /\ Call(u, "Open")
    /\ IF isShutdown
       THEN Return(u, ErrSessionShutdown, 0)
       ELSE Pending(u, "open_goaway")
    /\ UNCHANGED <<sessVars, streamLock, shutVars, sendVars, cont, hdr, pingCh,
                   myID, myReq, inLeft, histVars>>

\* An Open without the check of remoteGoAway.
OpenGoAway_NoCheck(u) ==
    /\ pc[u] = "open_goaway"
    /\ pc' = [pc EXCEPT ![u] = "open_lock"]
    /\ UNCHANGED <<sessVars, streamLock, shutVars, sendVars, cont, hdr, pingCh,
                   myID, myReq, op, ret, retStream, began, opsLeft, inLeft,
                   histVars>>

\* Open, lines 107-109: the peer has sent a go-away.
OpenGoAway(u) ==
    /\ pc[u] = "open_goaway"
    /\ IF remoteGoAway
       THEN Return(u, ErrRemoteGoAway, 0)
       ELSE /\ pc' = [pc EXCEPT ![u] = "open_lock"]
            /\ UNCHANGED <<ret, retStream>>
    /\ UNCHANGED <<sessVars, streamLock, shutVars, sendVars, cont, hdr, pingCh,
                   myID, myReq, op, began, opsLeft, inLeft, histVars>>

\* Open, lines 111-123: under streamLock, allocate the id and register the
\* stream in state Init; Open keeps the lock until it returns.
OpenLock(u) ==
    /\ pc[u] = "open_lock"
    /\ streamLock = NoTask
    /\ IF Exhausted(nextStreamID)
       THEN /\ Return(u, ErrStreamsExhausted, 0)
            /\ UNCHANGED <<nextStreamID, streams, streamLock, myID, opened>>
       ELSE /\ nextStreamID' = NextID(nextStreamID)
            /\ streams' = Put(streams, nextStreamID, "Init")
            /\ streamLock' = u
            /\ myID' = [myID EXCEPT ![u] = nextStreamID]
            /\ opened' = Append(opened, nextStreamID)
            /\ pc' = [pc EXCEPT ![u] = "wfs_send"]
            /\ UNCHANGED <<ret, retStream>>
    /\ UNCHANGED <<client, acceptCh, pings, pingID, remoteGoAway, localGoAway,
                   shutVars, sendVars, cont, hdr, pingCh, myReq, op, began,
                   opsLeft, inLeft, rejected, lastRead>>

\* ----------------------------------------------------------- waitForSend
\* The header and body of the request a call hands to waitForSend:
\* stream.sendWindowUpdate (Open), Ping and stream.Write.
ReqHdr(u) ==
    IF op[u] = "Open" THEN encode(typeWindowUpdate, {flagSYN}, myID[u], 0)
    ELSE IF op[u] = "Ping" THEN encode(typePing, {flagSYN}, 0, myID[u])
    ELSE encode(typeData, {}, myID[u], 1)
ReqBody(u) == op[u] = "Write"

\* waitForSend returns err to the call that made it: Open returns the stream
\* with err and releases streamLock, a stream write returns err, and Ping
\* returns a non-nil err and otherwise goes on to wait for the answer.
WfsReturn(u, err) ==
    IF op[u] = "Ping" /\ err = ErrNil
    THEN /\ pc' = [pc EXCEPT ![u] = "ping_resp"]
         /\ UNCHANGED <<ret, retStream, streamLock>>
    ELSE /\ Return(u, err, IF op[u] = "Open" THEN myID[u] ELSE 0)
         /\ streamLock' = IF op[u] = "Open" THEN NoTask ELSE streamLock

\* stream.sendWindowUpdate sends the first frame of a stream in state Init
\* with SYN and moves the stream to SynSent.
sendFlags(u) ==
    IF op[u] = "Open" /\ myID[u] \in DOMAIN streams /\ streams[myID[u]] = "Init"
    THEN [streams EXCEPT ![myID[u]] = "SynSent"]
    ELSE streams

\* waitForSend, lines 224-230: enqueue the request, or return
\* ErrSessionShutdown once the shutdown signal has fired.
WfsSend(u) ==
    /\ pc[u] = "wfs_send"
    /\ streams' = sendFlags(u)
    /\ \/ /\ Enqueue(ReqHdr(u), ReqBody(u), u)
          /\ myReq' = [myReq EXCEPT ![u] = enqCount + 1]
          /\ pc' = [pc EXCEPT ![u] = "wfs_wait"]
          /\ UNCHANGED <<ret, retStream, streamLock>>
       \/ /\ isShutdown
          /\ WfsReturn(u, ErrSessionShutdown)
          /\ UNCHANGED <<sendCh, enqCount, myReq>>
    /\ UNCHANGED <<client, nextStreamID, acceptCh, pings, pingID, remoteGoAway,
                   localGoAway, shutVars, ready, errCh, wire, writer, cont, hdr,
                   pingCh, myID, op, began, opsLeft, inLeft, histVars>>

\* waitForSend, lines 231-236: return what the send loop reports, or
\* ErrSessionShutdown once the shutdown signal has fired.
WfsWait(u) ==
    /\ pc[u] = "wfs_wait"
    /\ \/ /\ errCh[u] # "empty"
          /\ WfsReturn(u, errCh[u])
       \/ /\ isShutdown
          /\ WfsReturn(u, ErrSessionShutdown)
    /\ errCh' = [errCh EXCEPT ![u] = "empty"]
    /\ myReq' = [myReq EXCEPT ![u] = 0]
    /\ UNCHANGED <<sessVars, shutVars, sendCh, ready, wire, writer, enqCount,
                   cont, hdr, pingCh, myID, op, began, opsLeft, inLeft,
                   histVars>>

\* stream.Write: a stream of the table sends a Data frame with a body.
WriteCall(u) ==
    /\ Call(u, "Write")
    /\ \E id \in DOMAIN streams :
          /\ streams[id] # "Closed"
          /\ myID' = [myID EXCEPT ![u] = id]
    /\ Pending(u, "wfs_send")
    /\ UNCHANGED <<sessVars, streamLock, shutVars, sendVars, cont, hdr, pingCh,
                   myReq, inLeft, histVars>>

\* ----------------------------------------------------------- AcceptStream
\* AcceptStream, lines 138-143: a select over acceptCh and shutdownCh; when
\* both are ready either case may run.  The call blocks while neither is.
AcceptCall(u) ==
    /\ Call(u, "Accept")
    /\ \/ /\ acceptCh # <<>>
          /\ acceptCh' = Tail(acceptCh)
          /\ Return(u, ErrNil, Head(acceptCh))
       \/ /\ isShutdown
          /\ Return(u, shutdownErr, 0)
          /\ UNCHANGED acceptCh
    /\ UNCHANGED <<client, nextStreamID, streams, pings, pingID, remoteGoAway,
                   localGoAway, streamLock, shutVars, sendVars, cont, hdr, pingCh,
                   myID, myReq, inLeft, histVars>>

\* ----------------------------------------------------------------- GoAway
\* GoAway, line 173.
GoAwayCall(u) ==
    /\ Call(u, "GoAway")
    /\ localGoAway' = TRUE
    /\ Pending(u, "goaway_send")
    /\ UNCHANGED <<client, nextStreamID, streams, acceptCh, pings, pingID,
                   remoteGoAway, streamLock, shutVars, sendVars, cont, hdr,
                   pingCh, myID, myReq, inLeft, histVars>>

\* goAway(reason): the header of a go-away frame.
goAway(reason) == encode(typeGoAway, {}, 0, reason)

\* GoAway, lines 174-175: s.goAway(goAwayNormal), then return nil.
GoAwaySend(u) ==
    /\ pc[u] = "goaway_send"
    /\ sendNoWait(goAway(goAwayNormal))
    /\ pc' = [pc EXCEPT ![u] = "idle"]
    /\ ret' = [ret EXCEPT ![u] = ErrNil]
    /\ UNCHANGED <<sessVars, streamLock, shutVars, ready, errCh, wire, writer,
                   cont, hdr, pingCh, myID, myReq, op, retStream, began, opsLeft, inLeft,
                   histVars>>

\* ------------------------------------------------------------------- Ping
\* Ping, lines 181-188: under pingLock, take the next ping id and register
\* the channel of this call under it.
PingCall(u) ==
    /\ Call(u, "Ping")
    /\ pings' = Put(pings, pingID, u)
    /\ pingID' = (pingID + 1) % Uint32Mod
    /\ myID' = [myID EXCEPT ![u] = pingID]
    /\ pingCh' = [pingCh EXCEPT ![u] = "open"]
    /\ Pending(u, "wfs_send")
    /\ UNCHANGED <<client, nextStreamID, streams, acceptCh, remoteGoAway,
                   localGoAway, streamLock, shutVars, sendVars, cont, hdr,
                   myReq, inLeft, histVars>>

\* Ping, lines 199-206: a select over the call's channel and shutdownCh.
PingResp(u) ==
    /\ pc[u] = "ping_resp"
    /\ \/ /\ pingCh[u] = "closed"
          /\ Return(u, ErrNil, 0)
       \/ /\ isShutdown
          /\ Return(u, ErrSessionShutdown, 0)
    /\ UNCHANGED <<sessVars, streamLock, shutVars, sendVars, cont, hdr, pingCh,
                   myID, myReq, op, began, opsLeft, inLeft, histVars>>

\* -------------------------------------------------------------- send loop
\* A send loop that takes the newest request of the queue instead of the oldest.
Dequeue_Newest(q) == [req |-> q[Len(q)], rest |-> SubSeq(q, 1, Len(q) - 1)]

\* <-s.sendCh: the request at the head of the queue and the rest of it.
Dequeue(q) == [req |-> Head(q), rest |-> Tail(q)]

\* send, lines 252-253 and 280-281: a select over sendCh and shutdownCh.
SendSelect ==
    /\ pc["send"] = "send_select"
    /\ \/ /\ sendCh # <<>>
          /\ ready' = Dequeue(sendCh).req
          /\ sendCh' = Dequeue(sendCh).rest
          /\ pc' = [pc EXCEPT !["send"] = "send_hdr"]
       \/ /\ isShutdown
          /\ pc' = [pc EXCEPT !["send"] = "done"]
          /\ UNCHANGED <<sendCh, ready>>
    /\ UNCHANGED <<sessVars, streamLock, shutVars, errCh, wire, writer, enqCount,
                   cont, hdr, pingCh, myID, myReq, op, ret, retStream, began,
                   opsLeft, inLeft, histVars>>

\* s.conn.Write by task t: the chunk joins the bytes on the transport.
connWrite(t, part) ==
    /\ wire' = Append(wire, [n |-> ready.n, part |-> part, hdr |-> ready.hdr,
                              body |-> ready.body])
    /\ writer' = Append(writer, t)

\* send, lines 255-279: write the header (part "hdr") and then the body
\* (part "body") of the dequeued request, and report success once the whole
\* request is written.  A write fails on a closed transport, and may fail
\* at any time; then the loop calls exitErr, reports the error and ends.
SendWrite(part) ==
    /\ pc["send"] = "send_" \o part
    /\ \/ /\ connClosed = 0
          /\ connWrite("send", part)
          /\ IF part = "hdr" /\ ready.body
             THEN /\ pc' = [pc EXCEPT !["send"] = "send_body"]
                  /\ UNCHANGED <<errCh, ready>>
             ELSE /\ pc' = [pc EXCEPT !["send"] = "send_select"]
                  /\ errCh' = asyncSendErr(ready, ErrNil)
                  /\ ready' = NoReq
          /\ UNCHANGED <<shutdownErr, cont>>
       \/ /\ exitErr("send", ErrWrite, "send_ack")
          /\ UNCHANGED <<wire, writer, errCh, ready>>
    /\ UNCHANGED <<sessVars, streamLock, shutdown, shutdownCh, connClosed,
                   shutdownLock, closeReturned, closers, forceClosed, sendCh,
                   enqCount, hdr, pingCh, myID, myReq, op, ret, retStream,
                   began, opsLeft, inLeft, histVars>>

\* send, lines 261-262 and 273-274: asyncSendErr(ready.Err, err); return.
SendAck ==
    /\ pc["send"] = "send_ack"
    /\ errCh' = asyncSendErr(ready, ErrWrite)
    /\ pc' = [pc EXCEPT !["send"] = "done"]
    /\ ready' = NoReq
    /\ UNCHANGED <<sessVars, streamLock, shutVars, sendCh, wire, writer,
                   enqCount, cont, hdr, pingCh, myID, myReq, op, ret, retStream,
                   began, opsLeft, inLeft, histVars>>

\* ----------------------------------------------------------- receive loop
Goto(l) == pc' = [pc EXCEPT !["recv"] = l]

\* recv, line 289: the loop ends once the shutdown signal has fired.
RecvTop ==
    /\ pc["recv"] = "recv_top"
    /\ Goto(IF isShutdown THEN "done" ELSE "recv_read")
    /\ rejected' = "none"
    /\ lastRead' = NoRead
    /\ UNCHANGED <<sessVars, streamLock, shutVars, sendVars, cont, hdr, pingCh,
                   myID, myReq, op, ret, retStream, began, opsLeft, inLeft,
                   opened>>

\* io.ReadFull(s.conn, hdr) returns the next header f of the peer.
ReadFull(f) ==
    /\ pc["recv"] = "recv_read"
    /\ connClosed = 0
    /\ inLeft > 0
    /\ inLeft' = inLeft - 1

\* recv, lines 291-294: the read fails (the transport is closed, or fails).
RecvError ==
    /\ pc["recv"] = "recv_read"
    /\ exitErr("recv", ErrRead, "done")
    /\ UNCHANGED <<sessVars, streamLock, shutdown, shutdownCh, connClosed,
                   shutdownLock, closeReturned, closers, forceClosed, sendVars,
                   hdr, pingCh, myID, myReq, op, ret, retStream, began, opsLeft, inLeft,
                   histVars>>

\* recv, lines 297-300 and 322-324: a wrong version or an unknown type.
RecvInvalid ==
    /\ \E f \in InFrames :
          /\ f.ver # protoVersion \/ f.type = typeUnknown
          /\ ReadFull(f)
          /\ exitErr("recv", IF f.ver # protoVersion THEN ErrInvalidVersion
                             ELSE ErrInvalidMsgType, "done")
    /\ hdr' = NoFrame
    /\ UNCHANGED <<sessVars, streamLock, shutdown, shutdownCh, connClosed,
                   shutdownLock, closeReturned, closers, forceClosed, sendVars,
                   pingCh, myID, myReq, op, ret, retStream, began, opsLeft,
                   histVars>>

\* recv, lines 305-311, and handleStreamMessage, lines 332-338, with
\* incomingStream, lines 424-429: a Data or WindowUpdate frame; with SYN the
\* incoming stream is rejected at once when localGoAway is set.
RecvStreamFrame ==
    /\ \E f \in InFrames :
          /\ f.ver = protoVersion
          /\ f.type \in {typeData, typeWindowUpdate}
          /\ ReadFull(f)
          /\ hdr' = f
          /\ rejected' = IF flagSYN \in f.flags /\ localGoAway
                             /\ f.sid \notin DOMAIN streams
                          THEN "goaway" ELSE "none"
          /\ Goto(IF flagSYN \in f.flags
                  THEN (IF localGoAway THEN "inc_rst" ELSE "inc_lock")
                  ELSE "hsm_lookup")
    /\ UNCHANGED <<sessVars, streamLock, shutVars, sendVars, cont, pingCh, myID,
                   myReq, op, ret, retStream, began, opsLeft, opened, lastRead>>

\* incomingStream, lines 425-428: WindowUpdate with RST for the id.
IncRst ==
    /\ pc["recv"] = "inc_rst"
    /\ sendNoWait(encode(typeWindowUpdate, {flagRST}, hdr.sid, 0))
    /\ Goto("hsm_lookup")
    /\ UNCHANGED <<sessVars, streamLock, shutVars, ready, errCh, wire, writer,
                   cont, hdr, pingCh, myID, myReq, op, ret, retStream, began,
                   opsLeft, inLeft, histVars>>

\* incomingStream, lines 431-447: under streamLock, a known id is a
\* duplicate; a new one is registered in state SynReceived and offered to
\* acceptCh without blocking, which fails when acceptCh is full.
IncLock ==
    /\ pc["recv"] = "inc_lock"
    /\ streamLock = NoTask
    /\ IF hdr.sid \in DOMAIN streams
       THEN /\ streamLock' = "recv"
            /\ rejected' = "duplicate"
            /\ Goto("dup_goaway")
            /\ UNCHANGED <<streams, acceptCh>>
       ELSE IF Len(acceptCh) < AcceptBacklog
       THEN /\ streams' = Put(streams, hdr.sid, "SynReceived")
            /\ acceptCh' = Append(acceptCh, hdr.sid)
            /\ Goto("hsm_lookup")
            /\ UNCHANGED <<streamLock, rejected>>
       ELSE /\ streams' = Put(streams, hdr.sid, "SynReceived")
            /\ streamLock' = "recv"
            /\ Goto("backlog_del")
            /\ UNCHANGED <<acceptCh, rejected>>
    /\ UNCHANGED <<client, nextStreamID, pings, pingID, remoteGoAway, localGoAway,
                   shutVars, sendVars, cont, hdr, pingCh, myID, myReq, op, ret,
                   retStream, began, opsLeft, inLeft, opened, lastRead>>

\* incomingStream, lines 448-450: the backlog is exceeded; the stream just
\* registered is deleted from the table, in the state it was created in.
BacklogDel ==
    /\ pc["recv"] = "backlog_del"
    /\ streams' = Del(streams, hdr.sid)
    /\ rejected' = "backlog"
    /\ Goto("backlog_rst")
    /\ UNCHANGED <<client, nextStreamID, acceptCh, pings, pingID, remoteGoAway,
                   localGoAway, streamLock, shutVars, sendVars, cont, hdr, pingCh,
                   myID, myReq, op, ret, retStream, began, opsLeft, inLeft,
                   opened, lastRead>>

\* incomingStream, lines 436-437: s.goAway(goAwayProtoErr), then exitErr,
\* both with streamLock held.
DupGoAway ==
    /\ pc["recv"] = "dup_goaway"
    /\ sendNoWait(goAway(goAwayProtoErr))
    /\ exitErr("recv", ErrDuplicateStream, "dup_ret")
    /\ UNCHANGED <<sessVars, streamLock, shutdown, shutdownCh, connClosed,
                   shutdownLock, closeReturned, closers, forceClosed, ready,
                   errCh, wire, writer, hdr, pingCh, myID, myReq, op, ret,
                   retStream, began, opsLeft, inLeft, histVars>>

\* incomingStream, line 438: return nil, which releases streamLock.
DupRet ==
    /\ pc["recv"] = "dup_ret"
    /\ streamLock' = NoTask
    /\ Goto("hsm_lookup")
    /\ UNCHANGED <<sessVars, shutVars, sendVars, cont, hdr, pingCh, myID, myReq,
                   op, ret, retStream, began, opsLeft, inLeft, histVars>>

\* incomingStream, lines 451-455: the RST of a stream the backlog rejects,
\* sent with streamLock held; the return releases the lock.
BacklogRst ==
    /\ pc["recv"] = "backlog_rst"
    /\ sendNoWait(encode(typeWindowUpdate, {flagRST}, hdr.sid, 0))
    /\ streamLock' = NoTask
    /\ Goto("hsm_lookup")
    /\ UNCHANGED <<sessVars, shutVars, ready, errCh, wire, writer, cont, hdr,
                   pingCh, myID, myReq, op, ret, retStream, began, opsLeft, inLeft,
                   histVars>>

\* handleStreamMessage, lines 341-346: look the stream up under the read lock.
HsmLookup ==
    /\ pc["recv"] = "hsm_lookup"
    /\ streamLock = NoTask
    /\ Goto(IF hdr.sid \in DOMAIN streams THEN "hsm_deliver" ELSE "missing_goaway")
    /\ UNCHANGED <<sessVars, streamLock, shutVars, sendVars, cont, hdr, pingCh,
                   myID, myReq, op, ret, retStream, began, opsLeft, inLeft,
                   histVars>>

\* handleStreamMessage, lines 347-348: no such stream.
MissingGoAway ==
    /\ pc["recv"] = "missing_goaway"
    /\ sendNoWait(goAway(goAwayProtoErr))
    /\ exitErr("recv", ErrMissingStream, "done")
    /\ rejected' = IF rejected = "none" /\ flagSYN \notin hdr.flags
                    THEN "missing" ELSE rejected
    /\ hdr' = NoFrame
    /\ UNCHANGED <<sessVars, streamLock, shutdown, shutdownCh, connClosed,
                   shutdownLock, closeReturned, closers, forceClosed, ready,
                   errCh, wire, writer, pingCh, myID, myReq, op, ret,
                   retStream, began, opsLeft, inLeft, opened, lastRead>>

\* stream.readData(hdr, flags, conn): the bytes it reads from the transport,
\* which are the length of the header it is given.
readData(h) == h.len

\* handleStreamMessage, lines 351-364: a WindowUpdate goes to
\* stream.incrSendWindow, and then every frame, of either type, goes to
\* stream.readData; either may fail.
HsmDeliver ==
    /\ pc["recv"] = "hsm_deliver"
    /\ \/ /\ Goto("recv_top")
          /\ lastRead' = [type |-> hdr.type, len |-> hdr.len,
                          n |-> readData(hdr)]
       \/ /\ Goto("deliver_goaway")
          /\ UNCHANGED lastRead
    /\ hdr' = NoFrame
    /\ UNCHANGED <<sessVars, streamLock, shutVars, sendVars, cont, pingCh,
                   myID, myReq, op, ret, retStream, began, opsLeft, inLeft,
                   rejected, opened>>

\* handleStreamMessage, lines 354-355 and 361-362: the stream refused the frame.
DeliverGoAway ==
    /\ pc["recv"] = "deliver_goaway"
    /\ sendNoWait(goAway(goAwayProtoErr))
    /\ exitErr("recv", ErrStream, "done")
    /\ hdr' = NoFrame
    /\ UNCHANGED <<sessVars, streamLock, shutdown, shutdownCh, connClosed,
                   shutdownLock, closeReturned, closers, forceClosed, ready,
                   errCh, wire, writer, pingCh, myID, myReq, op, ret,
                   retStream, began, opsLeft, inLeft, histVars>>

\* recv, lines 312-316, and handleGoAway: Normal sets remoteGoAway, every
\* other code ends the loop with an error.
RecvGoAway ==
    /\ \E f \in InFrames :
          /\ f.ver = protoVersion
          /\ f.type = typeGoAway
          /\ ReadFull(f)
          /\ IF f.len = goAwayNormal
             THEN /\ remoteGoAway' = TRUE
                  /\ Goto("recv_top")
                  /\ UNCHANGED <<shutdownErr, cont>>
             ELSE /\ exitErr("recv", ErrGoAwayReceived, "done")
                  /\ UNCHANGED remoteGoAway
    /\ hdr' = NoFrame
    /\ UNCHANGED <<client, nextStreamID, streams, acceptCh, pings, pingID,
                   localGoAway, streamLock, shutdown, shutdownCh, connClosed,
                   shutdownLock, closeReturned, closers, forceClosed, sendVars,
                   pingCh, myID, myReq, op, ret, retStream, began, opsLeft,
                   histVars>>

\* An answer that wakes every Ping call under way.
closePingCh_All(id) ==
    [t \in Tasks |-> IF t \in Users /\ op[t] = "Ping" /\ pc[t] # "idle"
                     THEN "closed" ELSE pingCh[t]]

\* A handlePing that leaves the entry of an answered ping in the table.
pingDone_Keep(id) == pings

\* handlePing, line 384: delete(s.pings, pingID).
pingDone(id) == Del(pings, id)

\* close(ch) for the channel registered under ping id: it wakes the call
\* that registered it, if that call is still under way.
closePingCh(id) ==
    [t \in Tasks |-> IF /\ t = pings[id]
                        /\ myID[t] = id
                        /\ t \in Users
                        /\ op[t] = "Ping"
                        /\ pc[t] # "idle"
                     THEN "closed" ELSE pingCh[t]]

\* recv, lines 317-321, and handlePing: a query is answered through
\* sendNoWait; an answer deletes the ping's entry and closes its channel.
RecvPing ==
    /\ \E f \in InFrames :
          /\ f.ver = protoVersion
          /\ f.type = typePing
          /\ ReadFull(f)
          /\ IF flagSYN \in f.flags
             THEN /\ Goto("ping_ack")
                  /\ hdr' = f
                  /\ UNCHANGED <<pings, pingCh>>
             ELSE /\ Goto("recv_top")
                  /\ hdr' = NoFrame
                  /\ IF f.len \in DOMAIN pings
                     THEN /\ pings' = pingDone(f.len)
                          /\ pingCh' = closePingCh(f.len)
                     ELSE UNCHANGED <<pings, pingCh>>
    /\ UNCHANGED <<client, nextStreamID, streams, acceptCh, pingID, remoteGoAway,
                   localGoAway, streamLock, shutVars, sendVars, cont, myID, myReq,
                   op, ret, retStream, began, opsLeft, histVars>>

\* handlePing, lines 374-377: the answer, Ping with ACK and the same id.
PingAck ==
    /\ pc["recv"] = "ping_ack"
    /\ sendNoWait(encode(typePing, {flagACK}, 0, hdr.len))
    /\ Goto("recv_top")
    /\ hdr' = NoFrame
    /\ UNCHANGED <<sessVars, streamLock, shutVars, ready, errCh, wire, writer,
                   cont, pingCh, myID, myReq, op, ret, retStream, began,
                   opsLeft, inLeft, histVars>>

\* ------------------------------------------------------------ closeStream
\* closeStream(id, withLock), lines 460-466: delete(s.streams, id).
closeStream(id) == Del(streams, id)

\* A stream that has reached Closed has itself taken out of the table:
\* closeStream without the lock held, which takes streamLock for the delete.
CloseStreamCall ==
    /\ streamLock = NoTask
    /\ \E id \in DOMAIN streams :
          /\ streams[id] = "Closed"
          /\ streams' = closeStream(id)
    /\ UNCHANGED <<client, nextStreamID, acceptCh, pings, pingID, remoteGoAway,
                   localGoAway, streamLock, shutVars, sendVars, taskVars,
                   histVars>>

\* ------------------------------------------------------------ the program
OpenStep(u) == OpenCall(u) \/ OpenGoAway(u) \/ OpenLock(u)

WfsStep(u) == WfsSend(u) \/ WfsWait(u)

GoAwayStep(u) == GoAwayCall(u) \/ GoAwaySend(u)

PingStep(u) == PingCall(u) \/ PingResp(u)

UserStep(u) ==
    \/ OpenStep(u) \/ WfsStep(u) \/ WriteCall(u) \/ AcceptCall(u)
    \/ GoAwayStep(u) \/ PingStep(u) \/ CloseCall(u)

CloseStep == \E t \in Tasks : CloseLock(t) \/ CloseConn(t) \/ CloseStreams(t)

SendStep == SendSelect \/ SendWrite("hdr") \/ SendWrite("body") \/ SendAck

\* The receive loop on a Data or WindowUpdate frame.
StreamRecvStep ==
    \/ RecvStreamFrame \/ IncRst \/ IncLock \/ DupGoAway \/ DupRet
    \/ BacklogDel \/ BacklogRst
    \/ HsmLookup \/ MissingGoAway \/ HsmDeliver \/ DeliverGoAway

\* The receive loop on a Ping frame.
PingRecvStep == RecvPing \/ PingAck

RecvStep ==
    \/ RecvTop \/ RecvError \/ RecvInvalid \/ RecvGoAway
    \/ StreamRecvStep \/ PingRecvStep

Next ==
    \/ \E u \in Users : UserStep(u)
    \/ CloseStep
    \/ SendStep
    \/ RecvStep
    \/ CloseStreamCall

\* The session with every call and every frame.
Spec == Init /\ [][Next]_vars

\* The session under the calls that send frames (Open, stream writes, Ping
\* and GoAway) and the pings of the peer, which the receive loop answers.
NextSend ==
    \/ \E u \in Users : OpenStep(u) \/ WfsStep(u) \/ WriteCall(u)
                        \/ GoAwayStep(u) \/ PingStep(u)
    \/ CloseStep
    \/ SendStep
    \/ RecvTop \/ RecvError \/ PingRecvStep

SpecSend == InitFor(SendOps, SendIn) /\ [][NextSend]_vars

\* The session under Open and Close calls and the go-aways of the peer.
NextOpen ==
    \/ \E u \in Users : OpenStep(u) \/ WfsStep(u) \/ CloseCall(u)
    \/ CloseStep
    \/ SendStep
    \/ RecvTop \/ RecvError \/ RecvGoAway

SpecOpen == InitFor(OpenOps, OpenIn) /\ [][NextOpen]_vars

\* The session under AcceptStream, GoAway and Close calls and the stream
\* frames of the peer.
NextAccept ==
    \/ \E u \in Users : AcceptCall(u) \/ GoAwayStep(u) \/ CloseCall(u)
    \/ CloseStep
    \/ SendStep
    \/ RecvTop \/ RecvError \/ StreamRecvStep

SpecAccept == InitFor(AcceptOps, AcceptIn) /\ [][NextAccept]_vars

\* The session under Ping and Close calls and the pings of the peer.
NextPing ==
    \/ \E u \in Users : PingStep(u) \/ WfsStep(u) \/ CloseCall(u)
    \/ CloseStep
    \/ SendStep
    \/ RecvTop \/ RecvError \/ PingRecvStep

SpecPing == InitFor(PingOps, PingIn) /\ [][NextPing]_vars

\* The same under fair scheduling of the goroutines: a call that can take
\* its next step takes it, and so do the send loop, a Close under way and
\* the receive loop once it holds a frame.  What the peer sends, whether a
\* read or a write fails, and which calls are made, is left open.
FairSpecPing ==
    /\ SpecPing
    /\ \A u \in Users : WF_vars(PingResp(u)) /\ WF_vars(WfsStep(u))
    /\ WF_vars(SendStep)
    /\ WF_vars(CloseStep)
    /\ WF_vars(RecvTop \/ PingAck)

\* ------------------------------------------------------------- the claims
\* The number of the request chunk i of the wire belongs to, counting the
\* headers written up to it.
HeadersUpTo(i) == Cardinality({j \in 1..i : wire[j].part = "hdr"})

\* C1: the frames are written to the transport in the order in which their
\* requests were enqueued on sendCh, and only the send loop writes.  Every
\* chunk of the wire was written by the send loop; the k-th header on the
\* wire is the header of the k-th request enqueued; a body follows its own
\* header at once, so no chunk of another frame lies between them; and no
\* more requests are written than were enqueued.
C1_WireInEnqueueOrder ==
    /\ \A i \in 1..Len(writer) : writer[i] = "send"
    /\ Len(writer) = Len(wire)
    /\ HeadersUpTo(Len(wire)) <= enqCount
    /\ \A i \in 1..Len(wire) :
          /\ wire[i].n = HeadersUpTo(i)
          /\ wire[i].part = "body" =>
                /\ i > 1
                /\ wire[i - 1].part = "hdr"
                /\ wire[i - 1].n = wire[i].n
                /\ wire[i].body
          /\ (wire[i].part = "hdr" /\ wire[i].body /\ i < Len(wire)) =>
                wire[i + 1].part = "body"

\* C1 witness: the wire holds a reply of the receive loop and, later, the
\* header and body of a stream write, while another request is still queued.
C1_Witness ==
    /\ \E i, j \in 1..Len(wire) :
          /\ i < j
          /\ wire[i].hdr.type = typePing /\ flagACK \in wire[i].hdr.flags
          /\ wire[j].part = "body"
    /\ sendCh # <<>>

\* The Close call of task t can never return: it holds shutdownLock and waits
\* for streamLock, which it holds itself or which is held by a task that
\* waits for shutdownLock.
CloseBlocked(t) ==
    /\ pc[t] = "close_streams"
    /\ shutdownLock = t
    /\ \/ streamLock = t
       \/ streamLock \in Tasks /\ pc[streamLock] = "close_lock"

\* The part of C2 about repetition: the shutdown signal and the transport
\* are closed at most once, by one call, which is also the only one to run
\* the forceClose loop.
CloseAtMostOnce ==
    /\ shutdownCh <= 1
    /\ connClosed <= 1
    /\ forceClosed <= 1
    /\ Cardinality(closers) <= 1
    /\ shutdown <=> closers # {}

\* C2: Close is idempotent for any callers, user tasks, receive loop and
\* send loop.  One call sets shutdown, closes the shutdown signal, closes
\* the transport and force-closes the streams, each at most once; once a
\* call has returned all of that is done; and no call is left unable to
\* return.
C2_CloseIdempotent ==
    /\ CloseAtMostOnce
    /\ closeReturned =>
          shutdown /\ shutdownCh = 1 /\ connClosed = 1 /\ forceClosed = 1
    /\ \A t \in Tasks : ~CloseBlocked(t)

\* C3: an Open call that starts after a Close call has returned fails with
\* ErrSessionShutdown and returns no stream; it never gets past its first
\* check, so it never reaches the steps that allocate an id, register a
\* stream or enqueue a frame.
C3_OpenAfterClose ==
    \A u \in Users :
        (op[u] = "Open" /\ began[u].closed) =>
            /\ pc[u] = "idle"
            /\ ret[u] = ErrSessionShutdown
            /\ retStream[u] = 0

\* C3 witness: after an Open that registered a stream, a Close call has
\* returned and a later Open has failed with ErrSessionShutdown.
C3_Witness ==
    /\ opened # <<>>
    /\ \E u \in Users :
          op[u] = "Open" /\ began[u].closed /\ ret[u] = ErrSessionShutdown

\* The receive loop has just handled a go-away frame with reason Normal.
GoAwayNormalStep ==
    /\ pc["recv"] = "recv_read"
    /\ pc'["recv"] # "recv_read"
    /\ ~remoteGoAway
    /\ remoteGoAway'

\* C5: once the receive loop has processed GoAway(Normal), remoteGoAway is
\* set for good; an Open call that starts afterwards never reaches the steps
\* that allocate an id or register a stream, and fails with ErrRemoteGoAway
\* unless the session is shut down, when it fails with ErrSessionShutdown;
\* and the frame itself shuts nothing down: it leaves the stream table, the
\* shutdown state and the transport alone, and the receive loop goes on to
\* its next frame.
C5_RemoteGoAway ==
    /\ [](\A u \in Users :
            (op[u] = "Open" /\ began[u].goaway) =>
                /\ pc[u] \in {"open_goaway", "idle"}
                /\ retStream[u] = 0
                /\ pc[u] = "idle" => ret[u] \in {ErrRemoteGoAway, ErrSessionShutdown}
                /\ (pc[u] = "idle" /\ ret[u] = ErrSessionShutdown) => isShutdown)
    /\ [][remoteGoAway => remoteGoAway']_vars
    /\ [][GoAwayNormalStep =>
            /\ UNCHANGED <<streams, shutdown, shutdownErr, shutdownCh, connClosed>>
            /\ pc'["recv"] = "recv_top"]_vars

\* C5 witness: with a stream in the table and the session not shut down, an
\* Open call that started after the go-away has failed with ErrRemoteGoAway.
C5_Witness ==
    /\ remoteGoAway
    /\ ~isShutdown
    /\ streams # EmptyMap
    /\ \E u \in Users :
          /\ op[u] = "Open" /\ began[u].goaway
          /\ pc[u] = "idle" /\ ret[u] = ErrRemoteGoAway

\* The first id of this side.
StartID == IF client THEN 1 ELSE 2

\* C8: the ids Open registers are StartID, StartID + 2, ... in that order, so
\* they have the parity of the side, are pairwise distinct and each is 2
\* more than the one before; nextStreamID is always the next of them, as an
\* integer, so it has neither decreased nor wrapped around.
C8_OpenIds ==
    /\ \A i \in 1..Len(opened) :
          /\ opened[i] = StartID + 2 * (i - 1)
          /\ opened[i] % 2 = (IF client THEN 1 ELSE 0)
    /\ \A i, j \in 1..Len(opened) : i # j => opened[i] # opened[j]
    /\ nextStreamID = StartID + 2 * Len(opened)
    /\ nextStreamID <= MaxUint32

\* C8 witness: two Open calls under way at once, one holding streamLock and
\* the other waiting for it, after an earlier Open.
C8_Witness ==
    /\ Len(opened) >= 2
    /\ \E u, v \in Users :
          /\ op[u] = "Open" /\ pc[u] \in {"wfs_send", "wfs_wait"}
          /\ op[v] = "Open" /\ pc[v] = "open_lock"

\* User u leaves line 111 of Open: it has taken streamLock.
OpenLockStep(u) == pc[u] = "open_lock" /\ pc'[u] # "open_lock"

\* What Open does under streamLock when it refuses the values from limit on.
OpenAllocates(limit) ==
    \A u \in Users :
        OpenLockStep(u) =>
            IF nextStreamID >= limit
            THEN /\ pc'[u] = "idle"
                 /\ ret'[u] = ErrStreamsExhausted
                 /\ UNCHANGED <<nextStreamID, streams>>
            ELSE /\ myID'[u] = nextStreamID
                 /\ nextStreamID' = nextStreamID + 2
                 /\ nextStreamID \in DOMAIN streams'
                 /\ ret'[u] # ErrStreamsExhausted

\* C9 as stated: Open fails with ErrStreamsExhausted exactly when
\* nextStreamID >= 2^32 - 1 (MaxUint32) and then changes neither the counter
\* nor the table; below that it allocates nextStreamID and adds 2.
C9_ExhaustedAtMax == [][OpenAllocates(MaxUint32)]_vars

\* C9 amended: Open fails with ErrStreamsExhausted exactly when
\* nextStreamID >= 2^32 - 2 (MaxUint32 - 1) and then changes neither the
\* counter nor the table; below that it allocates nextStreamID and adds 2;
\* and no call returns ErrStreamsExhausted while the counter is below that.
C9_ExhaustedBelowMax ==
    /\ [][OpenAllocates(MaxUint32 - 1)]_vars
    /\ [](\A u \in Users :
            ret[u] = ErrStreamsExhausted => nextStreamID >= MaxUint32 - 1)

\* C9 witness: on the server side the counter stands at MaxUint32 - 1, every
\* smaller even id has been allocated, and an Open has failed with
\* ErrStreamsExhausted.
C9_Witness ==
    /\ ~client
    /\ nextStreamID = MaxUint32 - 1
    /\ opened # <<>>
    /\ \E u \in Users : op[u] = "Open" /\ ret[u] = ErrStreamsExhausted

\* C4: an Accept call that starts after a Close call has returned fails
\* with ErrSessionShutdown: it returns no stream, also when streams are still
\* in the accept queue, and no other error.
C4_AcceptAfterClose ==
    \A u \in Users :
        (op[u] = "Accept" /\ began[u].closed /\ pc[u] = "idle") =>
            /\ ret[u] = ErrSessionShutdown
            /\ retStream[u] = 0

\* Where the receive loop is while it rejects a stream and goes on to the
\* next frame: at the RST, at the lookup that follows, or back at the top.
RejectPath == {"inc_rst", "backlog_rst", "hsm_lookup", "recv_top"}

\* C6: with localGoAway set, a Data or WindowUpdate frame with SYN for an id
\* that is not in the table is answered with a WindowUpdate with RST and
\* nothing more: no stream is created for the id, and the receive loop
\* neither sends a go-away nor calls exitErr for it, but goes on to the next
\* frame.
C6_GoAwayRejectsStream ==
    rejected = "goaway" =>
        /\ pc["recv"] \in RejectPath \ {"backlog_rst"}
        /\ hdr.sid \notin DOMAIN streams

\* C7: a SYN frame for a new id that finds the accept queue full has only
\* that stream rejected: the stream is removed from the table, a WindowUpdate
\* with RST is sent, and the receive loop neither sends a go-away nor calls
\* exitErr for it, so that the queued streams stay there for Accept.
C7_BacklogRejectsStream ==
    rejected = "backlog" =>
        /\ pc["recv"] \in RejectPath \ {"inc_rst"}
        /\ hdr.sid \notin DOMAIN streams

\* The Ping call of user u is under way.
PingPending(u) == op[u] = "Ping" /\ pc[u] # "idle"

\* The Ping call of user u returns in this step.
PingReturns(u) == PingPending(u) /\ pc'[u] = "idle"

GoAwayProtoErrOnWire ==
    \E i \in 1..Len(wire) : wire[i].hdr = goAway(goAwayProtoErr)

\* C11: when the receive loop finds no stream for a Data or WindowUpdate
\* frame without SYN, GoAway(ProtoErr) is on the transport by the time the
\* transport is closed, and once the receive loop has ended the recorded
\* shutdown error is ErrMissingStream.
C11_MissingStreamGoAway ==
    rejected = "missing" =>
        /\ connClosed > 0 => GoAwayProtoErrOnWire
        /\ pc["recv"] = "done" => shutdownErr = ErrMissingStream

\* Every stream of the table has been force-closed.
AllForceClosed == \A id \in DOMAIN streams : streams[id] = "Closed"

\* C12: when the receive loop finds a SYN for an id that is already in the
\* table, its Close call can go on until it returns, and the receive loop
\* ends with the session fully shut down: the signal fired, the transport
\* closed, every stream force-closed and ErrDuplicateStream recorded.
C12_DuplicateShutsDown ==
    rejected = "duplicate" =>
        /\ ~CloseBlocked("recv")
        /\ pc["recv"] = "done" =>
              /\ shutdownCh = 1
              /\ connClosed = 1
              /\ AllForceClosed
              /\ shutdownErr = ErrDuplicateStream

\* Task t waits for shutdownLock, which a task holds that can never release it.
LockBlocked(t) ==
    /\ pc[t] = "close_lock"
    /\ shutdownLock \in Tasks
    /\ CloseBlocked(shutdownLock)

\* C13: the shutdown path cannot deadlock: no Close call holds shutdownLock
\* while waiting for a streamLock that is never released, no task waits for
\* such a Close call, and a loop that has ended, or a Close call that has
\* returned, leaves no lock behind.
C13_NoShutdownDeadlock ==
    /\ \A t \in Tasks : ~CloseBlocked(t) /\ ~LockBlocked(t)
    /\ \A t \in {"recv", "send"} :
          pc[t] = "done" => (streamLock # t /\ shutdownLock # t)

\* C14: of a stream frame the receive loop has handled it has read, past the
\* header, as many body bytes as the length field says when the frame is
\* Data, and none when it is WindowUpdate.
C14_BodyBytesRead ==
    lastRead.type # "none" =>
        lastRead.n = (IF lastRead.type = typeData THEN lastRead.len ELSE 0)

\* Where a task is about to call sendNoWait.
SendNoWaitPoints ==
    {"goaway_send", "inc_rst", "dup_goaway", "backlog_rst", "missing_goaway",
     "deliver_goaway", "ping_ack"}

\* The send queue is full and the shutdown signal has not fired.
QueueFull == Len(sendCh) = SendQueueCap /\ ~isShutdown

\* C15: sendNoWait does not block: a task that calls it can complete the
\* call in the state it is in, also when the send queue is full and the
\* session is not shut down.
C15_SendNoWaitReturns ==
    \A t \in Tasks : pc[t] \in SendNoWaitPoints => ~QueueFull

\* Task t waits for room in the send queue or for the answer of the send loop.
WaitsForSend(t) ==
    \/ pc[t] \in SendNoWaitPoints \cup {"wfs_send"} /\ QueueFull
    \/ pc[t] = "wfs_wait" /\ errCh[t] = "empty" /\ ~isShutdown

\* Task t holds a lock of the session.
HoldsLock(t) == streamLock = t \/ shutdownLock = t

\* C16: no task waits for room in the send queue, or for the answer of the
\* send loop, while it holds streamLock or shutdownLock.
C16_NoLockWhileSending ==
    \A t \in Tasks : WaitsForSend(t) => ~HoldsLock(t)

\* C17: an entry leaves the stream table only when its stream is Closed or
\* Reset.
C17_RemovedOnlyClosed ==
    [][\A id \in DOMAIN streams :
          id \notin DOMAIN streams' => streams[id] \in {"Closed", "Reset"}]_vars

\* C18: once a Close call has returned, every stream of the table has been
\* force-closed.
C18_AllClosedAfterClose == closeReturned => AllForceClosed

\* C19: from the moment the shutdown signal fires the recorded shutdown
\* error is not nil and never changes again.
C19_ShutdownErrWriteOnce ==
    /\ [](isShutdown => shutdownErr # ErrNil)
    /\ [][isShutdown => shutdownErr' = shutdownErr]_vars

\* The Ping call of user u has returned.
PingReturned(u) == op[u] = "Ping" /\ pc[u] = "idle"

\* C20 as stated: the id of a Ping call that has returned is not in the ping
\* table, and every id of the table is the id of a Ping call under way.
C20_TableIsPending ==
    /\ \A u \in Users : PingReturned(u) => myID[u] \notin DOMAIN pings
    /\ \A id \in DOMAIN pings : \E u \in Users : PingPending(u) /\ myID[u] = id

\* C20 amended: only the receive loop removes an entry, when it processes
\* the answer with that id.  So a Ping call that has returned success has
\* its id out of the table, and, as long as the shutdown signal has not
\* fired, every id of the table is the id of a Ping call under way that
\* registered it, and the table is no larger than the number of those calls.
C20_TableWhileUp ==
    /\ [](\A u \in Users :
            (PingReturned(u) /\ ret[u] = ErrNil) => myID[u] \notin DOMAIN pings)
    /\ [](~isShutdown =>
            /\ \A id \in DOMAIN pings :
                  PingPending(pings[id]) /\ myID[pings[id]] = id
            /\ Cardinality(DOMAIN pings)
                  <= Cardinality({u \in Users : PingPending(u)}))
    /\ [][\A id \in DOMAIN pings :
            id \notin DOMAIN pings' => pc["recv"] = "recv_read"]_vars

\* C20 witness: one Ping call was answered and has returned success, with its
\* id out of the table, and another has returned an error after the shutdown
\* signal fired, with its id still in the table.
C20_Witness ==
    \E u, v \in Users :
        /\ PingReturned(u) /\ ret[u] = ErrNil /\ myID[u] \notin DOMAIN pings
        /\ PingReturned(v) /\ ret[v] # ErrNil /\ myID[v] \in DOMAIN pings
        /\ myID[u] # myID[v]

=============================================================================
